---- MODULE Spec2Model ----
(***************************************************************************)
(* Label propagation of sknetwork/topology/labProp.pyx: the shuffle        *)
(* primitive, the pass loop of fit_core and the fit entry point of         *)
(* LabelPropagation.  Arrays are functions over 0..len-1, as in the source.*)
(***************************************************************************)
EXTENDS Integers, Sequences, FiniteSets, TLC

\* ---------------------------------------------------------------- bounds
\* largest n_nodes (adjacency.shape[0]) of an input graph
MaxNodes == 3
\* largest len(indices) of an input graph
MaxEntries == 4
\* largest len(indices) of an undirected input graph
MaxSymEntries == 6
\* seeds 0..MaxSeed are tried besides seed = None
MaxSeed == 1
\* the pass counter of a run saturates here, and its log is that long
PassCap == 4
\* the counter of label writes of a run saturates here
ChangeCap == 4
\* largest n of a shuffle(arr, n) call taken alone
MaxShuffleLen == 4
\* largest n_nodes of a fully connected input graph
MaxCompleteNodes == 3
\* malformed adjacencies: largest n_nodes, and largest offset and len(indices)
MaxBadNodes == 2
MaxBadEntries == 2

\* ------------------------------------------------------------ basic values
\* Python's None and a present value, kept apart from every array
None == <<>>
Some(x) == <<x>>

Len0(arr) == Cardinality(DOMAIN arr)

\* np.arange(n, dtype=np.int32)
arange(n) == [x \in 0..(n - 1) |-> x]

\* a vector after reserve(n): n slots of capacity
reserved(n, v) == [x \in 0..(n - 1) |-> v]

\* content of a reserved slot that was never written; lst is only read
\* below list_size, where it was written
Uninit == -1

\* ------------------------------------------------------------ libc rand
\* The generator is libc's: after srand(s) the values of rand() are a fixed
\* function of s, here a full-period linear congruential generator over
\* 0..RAND_MAX.  When fit never called srand the state is whatever the
\* process left there, and each rand() may return any value.

\* rand() returns values in 0..RAND_MAX
RAND_MAX == 7

\* the generator's state when srand was never called by this program
Unknown == -1

\* srand(seed): the state becomes a function of the seed alone
srand(s) == s % (RAND_MAX + 1)

\* one rand() call from a known state: the new state is the value returned
rand(st) == (5 * st + 3) % (RAND_MAX + 1)

RECURSIVE rand_seq(_, _)
\* the values of m successive rand() calls from the known state st
rand_seq(st, m) ==
  IF m = 0 THEN <<>> ELSE <<rand(st)>> \o rand_seq(rand(st), m - 1)

\* every outcome of m successive rand() calls: the values and the state left
RandDraws(st, m) ==
  IF st = Unknown
  THEN {[vals |-> rs, st |-> Unknown] : rs \in [1..m -> 0..RAND_MAX]}
  ELSE {[vals |-> rand_seq(st, m),
         st |-> IF m = 0 THEN st ELSE rand_seq(st, m)[m]]}

\* ------------------------------------------------------------- shuffle
\* variant: arr[i] is overwritten before it was saved in temp
swap_without_temp(arr, i0, j0) == [arr EXCEPT ![i0] = arr[j0]]

\* temp = arr[i]; arr[i] = arr[j]; arr[j] = temp
swap(arr, i0, j0) == [arr EXCEPT ![i0] = arr[j0], ![j0] = arr[i0]]

RECURSIVE shuffle_from(_, _, _, _)
\* iterations i0, i0-1, .., 1 of the loop of shuffle; rs[d] is the next rand()
shuffle_from(arr, i0, rs, d) ==
  IF i0 < 1 THEN arr
  ELSE shuffle_from(swap(arr, i0, rs[d] % (i0 + 1)), i0 - 1, rs, d + 1)

\* shuffle(arr, n) when the rand() calls return rs[1], rs[2], ...
shuffle(arr, n, rs) == shuffle_from(arr, n - 1, rs, 1)

\* number of rand() calls of shuffle(arr, n)
shuffle_calls(n) == IF n > 1 THEN n - 1 ELSE 0

\* ---------------------------------------------------------------- graphs
\* the offsets arrays of n rows over m entries
Indptrs(n, m) ==
  {p \in [0..n -> 0..m] :
     /\ p[0] = 0
     /\ p[n] = m
     /\ \A a \in 0..(n - 1) : p[a] <= p[a + 1]}

\* validity of a CSR adjacency of n nodes
ValidCSR(n, idx, ptr) ==
  /\ DOMAIN ptr = 0..n
  /\ \A a \in 0..(n - 1) : ptr[a] <= ptr[a + 1]
  /\ ptr[0] = 0
  /\ ptr[n] = Len0(idx)
  /\ \A e \in DOMAIN idx : idx[e] \in 0..(n - 1)

\* the neighbor list entries of node a: positions indptr[a] .. indptr[a+1]-1
Row(ptr, a) == ptr[a]..(ptr[a + 1] - 1)

\* how many entries of a's neighbor list are node b
Mult(idx, ptr, a, b) == Cardinality({e \in Row(ptr, a) : idx[e] = b})

\* an undirected graph: the adjacency matrix is symmetric
SymmetricCSR(n, idx, ptr) ==
  \A a, b \in 0..(n - 1) : Mult(idx, ptr, a, b) = Mult(idx, ptr, b, a)

VARIABLES
  n_nodes, indices, indptr,   \* the adjacency handed to fit
  seed,                       \* self.seed
  labels_,                    \* self.labels_
  rand_state,                 \* the state of libc's generator
  labels, order,              \* fit_core: the numpy arrays
  nb_labels, lst,             \* fit_core: the two vectors
  i, j, k, label,             \* fit_core: the int locals
  nb_lab_max, list_size,
  changed,                    \* fit_core: the flag of the pass loop
  pc,                         \* position in fit / fit_core
  run,                        \* which call on this object is running
  passes,                     \* passes begun by the running call
  pass_labels,                \* labels when the current pass began
  run_log, prev_log,          \* shuffles and passes of a seeded call
  oob,                        \* an array was read outside its bounds
  changes                     \* writes labels[i] = label by the running call

graph == <<n_nodes, indices, indptr>>
object == <<seed, labels_>>
arrays == <<labels, order, nb_labels, lst>>
locals == <<i, j, k, label, nb_lab_max, list_size>>
marks == <<run, passes, pass_labels, run_log, prev_log, oob>>
ghost == <<marks, changes>>
vars == <<graph, object, rand_state, arrays, locals, changed, pc, ghost>>

\* the record of one call: its shuffles, its passes, what it returned
EmptyLog == [shuffles |-> <<>>, passes |-> <<>>, returned |-> None]

\* ------------------------------------------------------------------ Init
\* LabelPropagation(seed) constructed, an adjacency matrix at hand
InitObject ==
  /\ seed \in {None} \cup {Some(s) : s \in 0..MaxSeed}
  /\ labels_ = None
  /\ rand_state = Unknown
  /\ labels = <<>> /\ order = <<>> /\ nb_labels = <<>> /\ lst = <<>>
  /\ i = 0 /\ j = 0 /\ k = 0 /\ label = 0 /\ nb_lab_max = 0 /\ list_size = 0
  /\ changed = TRUE
  /\ pc = "start"
  /\ run = 1 /\ passes = 0 /\ pass_labels = <<>>
  /\ run_log = EmptyLog /\ prev_log = EmptyLog
  /\ oob = FALSE
  /\ changes = 0

\* the adjacency is any valid CSR matrix of at most maxn rows, maxm entries
InitGraph(maxn, maxm) ==
  \E n \in 0..maxn, m \in 0..maxm :
    /\ n_nodes = n
    /\ indptr \in Indptrs(n, m)
    /\ indices \in [0..(m - 1) -> 0..(n - 1)]

Init == InitGraph(MaxNodes, MaxEntries) /\ InitObject

\* --------------------------------------------------------------- actions
\* variant: the flag of the pass loop starts False
fit_core_enter_unchanged ==
  /\ labels' = arange(n_nodes)
  /\ order' = arange(n_nodes)
  /\ nb_labels' = reserved(n_nodes, 0)
  /\ lst' = reserved(n_nodes, Uninit)
  /\ changed' = FALSE
  /\ pc' = "while"
  /\ passes' = 0
  /\ pass_labels' = arange(n_nodes)
  /\ changes' = 0
  /\ UNCHANGED locals

\* fit_core, lines 65-73: the arrays and vectors of a call
fit_core_enter ==
  /\ labels' = arange(n_nodes)
  /\ order' = arange(n_nodes)
  /\ nb_labels' = reserved(n_nodes, 0)
  /\ lst' = reserved(n_nodes, Uninit)
  /\ changed' = TRUE
  /\ pc' = "while"
  /\ passes' = 0
  /\ pass_labels' = arange(n_nodes)
  /\ changes' = 0
  /\ UNCHANGED locals

\* variant: fit never calls srand
seeded_state_skipped == rand_state

\* if (self.seed is not None): srand(self.seed)
seeded_state == IF seed # None THEN srand(seed[1]) ELSE rand_state

\* LabelPropagation.fit up to the first test of the pass loop
fit ==
  /\ pc = "start"
  /\ rand_state' = seeded_state
  /\ fit_core_enter
  /\ UNCHANGED <<graph, object, run, run_log, prev_log, oob>>

\* a second call of fit on the same object and the same adjacency
fit_again ==
  /\ pc = "done"
  /\ run = 1
  /\ rand_state' = seeded_state
  /\ fit_core_enter
  /\ run' = 2
  /\ prev_log' = run_log
  /\ run_log' = EmptyLog
  /\ UNCHANGED <<graph, object, oob>>

\* the pass loop entered again with the returned labels as initial labels
propagate_again ==
  /\ pc = "done"
  /\ run = 1
  /\ labels' = labels_[1]
  /\ order' = arange(n_nodes)
  /\ nb_labels' = reserved(n_nodes, 0)
  /\ lst' = reserved(n_nodes, Uninit)
  /\ changed' = TRUE
  /\ pc' = "while"
  /\ run' = 2
  /\ passes' = 0
  /\ pass_labels' = labels_[1]
  /\ changes' = 0
  /\ prev_log' = run_log
  /\ run_log' = EmptyLog
  /\ UNCHANGED <<graph, object, rand_state, locals, oob>>

\* while changed: shuffle(order, n_nodes); changed = False; for k in range(..)
pass_begin ==
  /\ pc = "while"
  /\ changed
  /\ \E d \in RandDraws(rand_state, shuffle_calls(n_nodes)) :
       /\ order' = shuffle(order, n_nodes, d.vals)
       /\ rand_state' = d.st
       /\ run_log' = IF seed = None \/ passes >= PassCap THEN run_log
                     ELSE [run_log EXCEPT !.shuffles =
                             Append(@, [draws |-> d.vals, order |-> order'])]
  /\ changed' = FALSE
  /\ k' = 0
  /\ pc' = "for"
  /\ passes' = IF passes < PassCap THEN passes + 1 ELSE passes
  /\ pass_labels' = labels
  /\ UNCHANGED <<graph, object, labels, nb_labels, lst, i, j, label,
                 nb_lab_max, list_size, run, prev_log, oob, changes>>

\* the pass loop ends: return labels, and fit stores them in self.labels_
fit_return ==
  /\ pc = "while"
  /\ ~changed
  /\ labels_' = Some(labels)
  /\ pc' = "done"
  /\ run_log' = [run_log EXCEPT !.returned = Some(labels)]
  /\ UNCHANGED <<graph, seed, rand_state, arrays, locals, changed, run,
                 passes, pass_labels, prev_log, oob, changes>>

\* for k in range(n_nodes): i = order[k]; list_size = 0; enter the tally loop
node_begin ==
  /\ pc = "for"
  /\ k < n_nodes
  /\ order[k] + 1 \in DOMAIN indptr
  /\ i' = order[k]
  /\ list_size' = 0
  /\ j' = indptr[order[k]]
  /\ pc' = "tally"
  /\ UNCHANGED <<graph, object, rand_state, arrays, k, label, nb_lab_max,
                 changed, ghost>>

\* the for loop over the nodes is exhausted: back to the while test
pass_end ==
  /\ pc = "for"
  /\ k >= n_nodes
  /\ pc' = "while"
  /\ run_log' = IF seed = None \/ Len(run_log.passes) >= PassCap THEN run_log
                ELSE [run_log EXCEPT !.passes = Append(@, labels)]
  /\ UNCHANGED <<graph, object, rand_state, arrays, locals, changed,
                 run, passes, pass_labels, prev_log, oob, changes>>

\* variant: the range runs one entry into the next row
row_end_inclusive(a) == indptr[a + 1] + 1

\* the end of range(indptr[a], indptr[a+1])
row_end(a) == indptr[a + 1]

\* variant: the tally reads the labels as they were when the pass began
neighbor_label_at_pass_start(e) == pass_labels[indices[e]]

\* label = labels[indices[e]]
neighbor_label(e) == labels[indices[e]]

\* variant: a label wins only when ahead by two
more_frequent_by_two(mx, cnt) == mx + 1 < cnt

\* variant: a label as frequent as the best so far wins too
more_frequent_or_equal(mx, cnt) == mx <= cnt

\* if nb_lab_max < nb_labels[label]
more_frequent(mx, cnt) == mx < cnt

\* the reads of one tally iteration stay inside indices and labels
tally_in_bounds ==
  /\ j \in DOMAIN indices
  /\ indices[j] \in DOMAIN labels

\* variant: every entry is appended to lst, seen before or not
tally_lists_every_entry ==
  /\ pc = "tally"
  /\ j < row_end(i)
  /\ tally_in_bounds
  /\ LET lab == neighbor_label(j) IN
       /\ label' = lab
       /\ lst' = [lst EXCEPT ![list_size] = lab]
       /\ list_size' = list_size + 1
       /\ nb_labels' = [nb_labels EXCEPT ![lab] = @ + 1]
  /\ j' = j + 1
  /\ UNCHANGED <<graph, object, rand_state, labels, order, i, k, nb_lab_max,
                 changed, pc, ghost>>

\* one iteration of: for j in range(indptr[i], indptr[i+1])
tally ==
  /\ pc = "tally"
  /\ j < row_end(i)
  /\ tally_in_bounds
  /\ LET lab == neighbor_label(j) IN
       /\ label' = lab
       /\ IF nb_labels[lab] = 0
          THEN /\ lst' = [lst EXCEPT ![list_size] = lab]
               /\ list_size' = list_size + 1
          ELSE UNCHANGED <<lst, list_size>>
       /\ nb_labels' = [nb_labels EXCEPT ![lab] = @ + 1]
  /\ j' = j + 1
  /\ UNCHANGED <<graph, object, rand_state, labels, order, i, k, nb_lab_max,
                 changed, pc, ghost>>

\* the tally loop is exhausted: nb_lab_max = nb_labels[labels[i]]
tally_end ==
  /\ pc = "tally"
  /\ j >= row_end(i)
  /\ nb_lab_max' = nb_labels[labels[i]]
  /\ j' = 0
  /\ pc' = "select"
  /\ UNCHANGED <<graph, object, rand_state, arrays, i, k, label, list_size,
                 changed, ghost>>

\* one more write labels[i] = label is counted
counted(c) == IF c < ChangeCap THEN c + 1 ELSE c

\* variant: the count is stored in labels[i] instead of the label
select_stores_count ==
  /\ pc = "select"
  /\ j < list_size
  /\ LET lab == lst[j] IN
       /\ label' = lab
       /\ IF more_frequent(nb_lab_max, nb_labels[lab])
          THEN /\ nb_lab_max' = nb_labels[lab]
               /\ labels' = [labels EXCEPT ![i] = nb_labels[lab]]
               /\ changed' = TRUE
               /\ changes' = counted(changes)
          ELSE UNCHANGED <<nb_lab_max, labels, changed, changes>>
       /\ nb_labels' = [nb_labels EXCEPT ![lab] = 0]
  /\ j' = j + 1
  /\ UNCHANGED <<graph, object, rand_state, order, lst, i, k, list_size,
                 pc, marks>>

\* variant: a label is changed without setting the flag of the pass loop
select_forgets_changed ==
  /\ pc = "select"
  /\ j < list_size
  /\ LET lab == lst[j] IN
       /\ label' = lab
       /\ IF more_frequent(nb_lab_max, nb_labels[lab])
          THEN /\ nb_lab_max' = nb_labels[lab]
               /\ labels' = [labels EXCEPT ![i] = lab]
               /\ changes' = counted(changes)
          ELSE UNCHANGED <<nb_lab_max, labels, changes>>
       /\ nb_labels' = [nb_labels EXCEPT ![lab] = 0]
  /\ j' = j + 1
  /\ UNCHANGED <<graph, object, rand_state, order, lst, i, k, list_size,
                 changed, pc, marks>>

\* variant: the tally of a label is reset only when the label did not win
select_resets_losers_only ==
  /\ pc = "select"
  /\ j < list_size
  /\ LET lab == lst[j] IN
       /\ label' = lab
       /\ IF more_frequent(nb_lab_max, nb_labels[lab])
          THEN /\ nb_lab_max' = nb_labels[lab]
               /\ labels' = [labels EXCEPT ![i] = lab]
               /\ changed' = TRUE
               /\ changes' = counted(changes)
               /\ UNCHANGED nb_labels
          ELSE /\ nb_labels' = [nb_labels EXCEPT ![lab] = 0]
               /\ UNCHANGED <<nb_lab_max, labels, changed, changes>>
  /\ j' = j + 1
  /\ UNCHANGED <<graph, object, rand_state, order, lst, i, k, list_size,
                 pc, marks>>

\* one iteration of: for j in range(list_size)
select ==
  /\ pc = "select"
  /\ j < list_size
  /\ LET lab == lst[j] IN
       /\ label' = lab
       /\ IF more_frequent(nb_lab_max, nb_labels[lab])
          THEN /\ nb_lab_max' = nb_labels[lab]
               /\ labels' = [labels EXCEPT ![i] = lab]
               /\ changed' = TRUE
               /\ changes' = counted(changes)
          ELSE UNCHANGED <<nb_lab_max, labels, changed, changes>>
       /\ nb_labels' = [nb_labels EXCEPT ![lab] = 0]
  /\ j' = j + 1
  /\ UNCHANGED <<graph, object, rand_state, order, lst, i, k, list_size,
                 pc, marks>>

\* the selection loop is exhausted: next k
node_end ==
  /\ pc = "select"
  /\ j >= list_size
  /\ k' = k + 1
  /\ pc' = "for"
  /\ UNCHANGED <<graph, object, rand_state, arrays, i, j, label, nb_lab_max,
                 list_size, changed, ghost>>

Next ==
  \/ fit
  \/ pass_begin
  \/ fit_return
  \/ node_begin
  \/ pass_end
  \/ tally
  \/ tally_end
  \/ select
  \/ node_end

Spec == Init /\ [][Next]_vars

\* ---------------------------------------------- adjacency not validated
\* fit hands adjacency.shape[0], .indices and .indptr to fit_core as they are
InitUnchecked ==
  /\ \E n \in 1..MaxBadNodes, m \in 0..MaxBadEntries, extra \in 0..1 :
       /\ n_nodes = n
       /\ indptr \in [0..(n + extra) -> 0..MaxBadEntries]
       /\ indices \in [0..(m - 1) -> 0..n]
  /\ InitObject

\* the next read of fit_core falls outside indices or labels
bad_read ==
  /\ pc = "tally"
  /\ j < row_end(i)
  /\ ~tally_in_bounds
  /\ oob' = TRUE
  /\ \/ /\ pc' = "error"
        /\ UNCHANGED <<nb_labels, lst, j, label, list_size>>
     \/ \E lab \in DOMAIN labels :
          /\ label' = lab
          /\ IF nb_labels[lab] = 0
             THEN /\ lst' = [lst EXCEPT ![list_size] = lab]
                  /\ list_size' = list_size + 1
             ELSE UNCHANGED <<lst, list_size>>
          /\ nb_labels' = [nb_labels EXCEPT ![lab] = @ + 1]
          /\ j' = j + 1
          /\ pc' = pc
  /\ UNCHANGED <<graph, object, rand_state, labels, order, i, k, nb_lab_max,
                 changed, run, passes, pass_labels, run_log, prev_log, changes>>

NextUnchecked == Next \/ bad_read

SpecUnchecked == InitUnchecked /\ [][NextUnchecked]_vars

\* ------------------------------------------------- undirected graphs only
InitSymmetric ==
  /\ InitGraph(MaxNodes, MaxSymEntries)
  /\ SymmetricCSR(n_nodes, indices, indptr)
  /\ InitObject

\* the call keeps running until it returns
LiveSpec == InitSymmetric /\ [][Next]_vars /\ WF_vars(Next)

\* ------------------------------------------------ two calls, same seed
InitSeeded == Init /\ seed # None

NextRepro == Next \/ fit_again

SpecRepro == InitSeeded /\ [][NextRepro]_vars

\* ------------------------------------- the loop re-entered when converged
NextRerun == Next \/ propagate_again

SpecRerun == Init /\ [][NextRerun]_vars

\* ------------------------------------------------ fully connected graphs
\* the orders in which a neighbor list can name the nodes of T, each once
RowOrders(T) ==
  {f \in [0..(Cardinality(T) - 1) -> T] :
     \A x, y \in DOMAIN f : x # y => f[x] # f[y]}

\* every node is adjacent to every other node, and with loops to itself too
InitComplete ==
  /\ \E n \in 0..MaxCompleteNodes, loops \in BOOLEAN :
       LET T(a) == IF loops THEN 0..(n - 1) ELSE (0..(n - 1)) \ {a}
           d == Cardinality(T(0))
       IN /\ n_nodes = n
          /\ indptr = [a \in 0..n |-> a * d]
          /\ \E rows \in [0..(n - 1) -> UNION {RowOrders(T(a)) : a \in 0..(n - 1)}] :
               /\ \A a \in 0..(n - 1) : rows[a] \in RowOrders(T(a))
               /\ indices = [e \in 0..(n * d - 1) |-> rows[e \div d][e % d]]
  /\ InitObject

SpecComplete == InitComplete /\ [][Next]_vars

\* ------------------------------------------------- shuffle taken alone
\* an int array of length n with any contents, about to be shuffled
InitShuffle ==
  /\ n_nodes \in 0..MaxShuffleLen
  /\ order \in [0..(n_nodes - 1) -> 0..(n_nodes - 1)]
  /\ indptr = [a \in 0..n_nodes |-> 0]
  /\ indices = <<>>
  /\ seed = None /\ labels_ = None /\ rand_state = Unknown
  /\ labels = <<>> /\ nb_labels = <<>> /\ lst = <<>>
  /\ i = 0 /\ j = 0 /\ k = 0 /\ label = 0 /\ nb_lab_max = 0 /\ list_size = 0
  /\ changed = TRUE
  /\ pc = "shuffle"
  /\ run = 1 /\ passes = 0 /\ pass_labels = <<>>
  /\ run_log = EmptyLog /\ prev_log = EmptyLog
  /\ oob = FALSE
  /\ changes = 0

\* one call shuffle(order, n_nodes)
shuffle_call ==
  /\ pc \in {"shuffle", "shuffled"}
  /\ \E d \in RandDraws(rand_state, shuffle_calls(n_nodes)) :
       /\ order' = shuffle(order, n_nodes, d.vals)
       /\ rand_state' = d.st
  /\ pc' = "shuffled"
  /\ UNCHANGED <<graph, object, labels, nb_labels, lst, locals, changed, ghost>>

NextShuffle == shuffle_call

SpecShuffle == InitShuffle /\ [][NextShuffle]_vars

\* ================================================================ claims
Nodes == 0..(n_nodes - 1)

\* fit_core is inside a pass, between two tests of the while condition
InPass == pc \in {"for", "tally", "select"}

\* entries of a's neighbor list whose node carries label L under labs
Count(labs, a, L) ==
  Cardinality({e \in Row(indptr, a) : labs[indices[e]] = L})

\* no node has a label strictly more frequent among its neighbors than its own
FixedPoint(labs) ==
  \A a \in Nodes, L \in Nodes : Count(labs, a, L) <= Count(labs, a, labs[a])

\* the nodes that a's neighbor list names
Neighbors(a) == {indices[e] : e \in Row(indptr, a)}

\* a and b are joined by an entry of either neighbor list
Adjacent(a, b) == b \in Neighbors(a) \/ a \in Neighbors(b)

RECURSIVE Closure(_)
Closure(S) ==
  IF \A a \in S, b \in Nodes \ S : ~Adjacent(a, b) THEN S
  ELSE Closure(S \cup {b \in Nodes : \E a \in S : Adjacent(a, b)})

\* the connected component of node a
Component(a) == Closure({a})

\* C1: once fit_core has initialised them, after every step and at return,
\* labels has length n_nodes and every labels[x] is in [0, n_nodes).
C1_LabelsInRange ==
  pc # "start" =>
    /\ DOMAIN labels = Nodes
    /\ \A x \in Nodes : labels[x] \in Nodes
    /\ (pc = "done" => labels_ = Some(labels))

C1_Witness == pc = "done" /\ \E x \in Nodes : labels[x] # x

\* C2: whenever fit_core returns, no node has a label L whose count in the
\* node's neighbor list exceeds the count of the node's own label.
C2_ReturnsFixedPoint == pc = "done" => FixedPoint(labels_[1])

C2_Witness ==
  /\ pc = "done"
  /\ ~FixedPoint(arange(n_nodes))
  /\ passes >= 3

\* C3: on a symmetric graph, whatever the shuffles, the pass loop reaches a
\* pass without change and fit_core returns.
C3_Terminates == <>(pc = "done")

C3_Witness ==
  /\ pc = "done"
  /\ passes >= 3
  /\ \E x \in Nodes : labels[x] # x

\* C4: every label is the index of a node of the same connected component,
\* so nodes of two different components never share a label.
C4_ComponentsNeverMerge ==
  pc # "start" =>
    /\ \A x \in Nodes : labels[x] \in Component(x)
    /\ \A x, y \in Nodes : labels[x] = labels[y] => y \in Component(x)
    /\ (pc = "done" => labels_ = Some(labels))

C4_Witness ==
  /\ pc = "done"
  /\ \E x, y, z \in Nodes :
       /\ y \notin Component(x)
       /\ z # x /\ z \in Component(x)
       /\ labels[x] = labels[z]

IsPrefix(s, t) == Len(s) <= Len(t) /\ \A x \in 1..Len(s) : s[x] = t[x]

\* C5: with a seed, a second call of fit on the same graph repeats the
\* first: same rand() values and visitation order in every pass, same
\* labels after every pass, same labels returned.
C5_SeededRunsIdentical ==
  run = 2 =>
    /\ IsPrefix(run_log.shuffles, prev_log.shuffles)
    /\ IsPrefix(run_log.passes, prev_log.passes)
    /\ (pc = "done" => run_log = prev_log /\ labels_ = prev_log.returned)

C5_Witness ==
  /\ run = 2
  /\ pc = "done"
  /\ Len(run_log.passes) >= 2
  /\ n_nodes >= 3
  /\ \E x \in Nodes : labels[x] # x

\* C6: an invalid adjacency makes fit fail with an error before labels is
\* changed, fit never returns labels for it, and no read is out of bounds.
C6_InvalidGraphFailsFast ==
  ~ValidCSR(n_nodes, indices, indptr) =>
    /\ pc # "done"
    /\ ~oob
    /\ (pc # "start" => labels = arange(n_nodes))

\* C7: the pass loop started on the labels a call returned changes no
\* label, stops after one pass and returns the same labels.
C7_ConvergedIsIdempotent ==
  run = 2 =>
    /\ Some(labels) = prev_log.returned
    /\ (InPass => ~changed)
    /\ passes <= 1
    /\ (pc = "done" => passes = 1 /\ labels_ = prev_log.returned)

C7_Witness ==
  /\ run = 2
  /\ pc = "done"
  /\ \E x \in Nodes : labels[x] # x

\* the graph has no edge: indptr all equal, indices empty
Edgeless == DOMAIN indices = {}

\* C8: on an edgeless graph fit_core runs exactly one pass, changes nothing
\* and returns labels[x] = x for all x (the empty array when n_nodes = 0).
C8_EdgelessKeepsIdentity ==
  Edgeless /\ pc # "start" =>
    /\ DOMAIN labels = Nodes
    /\ \A x \in Nodes : labels[x] = x
    /\ (InPass => ~changed)
    /\ passes <= 1
    /\ (pc = "done" => passes = 1 /\ labels_ = Some(labels))

C8_Witness == Edgeless /\ pc = "done" /\ n_nodes >= 2

\* two nodes joined by one undirected edge and nothing else
TwoClique ==
  /\ n_nodes = 2
  /\ indptr = (0 :> 0 @@ 1 :> 1 @@ 2 :> 2)
  /\ indices = (0 :> 1 @@ 1 :> 0)

\* C9: on the two-node clique both nodes carry one label when the first
\* pass ends, whatever the order, and fit_core returns them sharing it.
C9_TwoCliqueEqualises ==
  TwoClique =>
    /\ (pc = "while" /\ passes >= 1 => labels[0] = labels[1])
    /\ (pc = "done" => labels_[1][0] = labels_[1][1])

C9_Witness == TwoClique /\ pc = "done" /\ order = (0 :> 1 @@ 1 :> 0)

\* one node whose only edge is a self-loop
SelfLoop ==
  /\ n_nodes = 1
  /\ indptr = (0 :> 0 @@ 1 :> 1)
  /\ indices = (0 :> 0)

\* C10: on the single self-loop node the loop is tallied toward the node's
\* own label, no label changes and fit_core returns [0] after one pass.
C10_SelfLoopKeepsLabel ==
  SelfLoop /\ pc # "start" =>
    /\ labels = (0 :> 0)
    /\ (InPass => ~changed)
    /\ (pc = "select" => nb_lab_max = 1 /\ list_size = 1 /\ lst[0] = 0)
    /\ passes <= 1
    /\ (pc = "done" => passes = 1 /\ labels_ = Some((0 :> 0)))

C10_Witness == SelfLoop /\ pc = "done" /\ nb_lab_max = 1

\* every node's neighbor list names every other node
FullyConnected == \A a, b \in Nodes : a # b => Mult(indices, indptr, a, b) > 0

\* the nodes a neighbor list names are all named equally often
EqualFrequencies ==
  \A a, b, c \in Nodes :
    Mult(indices, indptr, a, b) > 0 /\ Mult(indices, indptr, a, c) > 0
      => Mult(indices, indptr, a, b) = Mult(indices, indptr, a, c)

\* every node's neighbor list names itself too
AllSelfLoops == \A a \in Nodes : Mult(indices, indptr, a, a) > 0

\* no label is updated: one pass, the flag stays False, the identity returned
NeverUpdates ==
  pc # "start" =>
    /\ \A x \in Nodes : labels[x] = x
    /\ (InPass => ~changed)
    /\ passes <= 1
    /\ (pc = "done" => passes = 1 /\ labels_ = Some(labels))

\* C11 as stated: on a fully connected graph whose neighbor labels are all
\* equally frequent fit_core updates no label and returns the identity.
C11_CompleteNeverUpdates == FullyConnected /\ EqualFrequencies => NeverUpdates

\* C11 amended: on a fully connected graph where every node also names
\* itself, so that its own label is as frequent as every other, fit_core
\* updates no label and returns the identity after one pass.
C11_CompleteWithLoopsNeverUpdates ==
  FullyConnected /\ EqualFrequencies /\ AllSelfLoops => NeverUpdates

C11_Witness ==
  /\ FullyConnected /\ EqualFrequencies /\ AllSelfLoops
  /\ n_nodes = 3
  /\ pc = "done"

\* how many slots of arr hold v
Occurrences(arr, v) == Cardinality({x \in DOMAIN arr : arr[x] = v})

\* b holds the elements of a, each as often as a does
IsPermutationOf(b, a) ==
  /\ DOMAIN b = DOMAIN a
  /\ \A x \in DOMAIN a : Occurrences(b, a[x]) = Occurrences(a, a[x])

\* the elements of arr are pairwise distinct
Distinct(arr) == \A x, y \in DOMAIN arr : x # y => arr[x] # arr[y]

\* the orderings of the elements of an array of distinct elements
Orderings(arr) ==
  {f \in [DOMAIN arr -> {arr[x] : x \in DOMAIN arr}] : Distinct(f)}

\* the draw sequences of shuffle(arr, n): j in [0, i] for i = n-1 down to 1
DrawSeqs(n) ==
  {js \in [1..shuffle_calls(n) -> 0..(n - 1)] :
     \A d \in DOMAIN js : js[d] <= n - d}

\* C12: shuffle leaves arr a permutation of its previous contents, leaves
\* it unchanged when n is 0 or 1, and each ordering of an array of distinct
\* elements is produced by exactly one sequence of draws.
C12_ShuffleIsBijection ==
  /\ [][/\ IsPermutationOf(order', order)
        /\ (n_nodes <= 1 => order' = order)]_vars
  /\ [](Distinct(order) =>
          \A p \in Orderings(order) :
            Cardinality({js \in DrawSeqs(n_nodes) :
                           shuffle(order, n_nodes, js) = p}) = 1)

C12_Witness ==
  /\ pc = "shuffled"
  /\ n_nodes >= 3
  /\ Distinct(order)
  /\ order # arange(n_nodes)

\* the selection loop of node i is over
NodeUpdated == (pc = "select" /\ j >= list_size) \/ (pc = "for" /\ k >= 1)

\* the labels as they were when the update of node i began: only labels[i]
\* can differ, and node i held its label since the pass began
BeforeUpdate == [labels EXCEPT ![i] = pass_labels[i]]

\* the tally of label L over i's neighbor list when its update began
TallyOf(L) == Count(BeforeUpdate, i, L)

\* the largest tally of a label of i's neighbor list
MaxTally == CHOOSE m \in 0..Len0(indices) :
              /\ \A L \in Nodes : TallyOf(L) <= m
              /\ (m > 0 => \E L \in Nodes : TallyOf(L) = m)

\* the first entry of i's neighbor list whose label has the largest tally
FirstMaxEntry ==
  CHOOSE e \in Row(indptr, i) :
    /\ TallyOf(BeforeUpdate[indices[e]]) = MaxTally
    /\ \A f \in Row(indptr, i) :
         f < e => TallyOf(BeforeUpdate[indices[f]]) < MaxTally

\* C13: a node keeps its label unless another label is strictly more
\* frequent among its neighbors; otherwise it takes the label of largest
\* tally that comes first in its neighbor list.
C13_TieBreak ==
  NodeUpdated =>
    IF TallyOf(pass_labels[i]) >= MaxTally
    THEN labels[i] = pass_labels[i]
    ELSE /\ labels[i] = BeforeUpdate[indices[FirstMaxEntry]]
         /\ TallyOf(labels[i]) = MaxTally
         /\ labels[i] # pass_labels[i]

C13_Witness ==
  /\ NodeUpdated
  /\ labels[i] # pass_labels[i]
  /\ \E L \in Nodes : L < labels[i] /\ TallyOf(L) = MaxTally

\* C14: whenever fit_core is about to process a node, and between passes,
\* every entry of nb_labels is zero, also after a node changed its label.
C14_TallyCleanedUp ==
  pc \in {"while", "for", "done"} =>
    /\ DOMAIN nb_labels = Nodes
    /\ \A x \in Nodes : nb_labels[x] = 0

C14_Witness ==
  /\ pc = "for"
  /\ k >= 1 /\ k < n_nodes
  /\ labels[i] # pass_labels[i]
  /\ list_size >= 2

\* C15: the tally of the node at position k counts, for each neighbor, the
\* label it holds now, after the nodes at positions 0..k-1 of this pass were
\* updated; the nodes at positions k.. still hold their pass-start labels.
C15_AsynchronousTally ==
  /\ pc = "tally" =>
       /\ \A L \in Nodes :
            nb_labels[L] =
              Cardinality({e \in indptr[i]..(j - 1) : labels[indices[e]] = L})
       /\ \A p \in k..(n_nodes - 1) :
            labels[order[p]] = pass_labels[order[p]]
  /\ pc = "select" /\ j = 0 =>
       \A L \in Nodes : nb_labels[L] = Count(labels, i, L)

C15_Witness ==
  /\ pc = "select" /\ j = 0
  /\ \E L \in Nodes : Count(labels, i, L) # Count(pass_labels, i, L)

\* a pass is over and the while condition is about to be tested
PassOver == pc = "while" /\ passes >= 1

\* C16: when a pass is over, changed is true exactly when labels differs
\* from what it was when the pass began; fit_core returns right after the
\* first pass that changed nothing, and only after such a complete pass.
C16_ConvergenceDetectionExact ==
  /\ [](PassOver => (changed <=> labels # pass_labels))
  /\ [](pc = "done" => passes >= 1 /\ ~changed /\ labels = pass_labels)
  /\ [][/\ PassOver /\ labels = pass_labels => pc' = "done"
        /\ pc' = "done" => PassOver /\ labels = pass_labels]_vars

C16_Witness ==
  /\ PassOver
  /\ passes >= 2
  /\ changed
  /\ \E x \in Nodes : labels[x] # pass_labels[x] /\ pass_labels[x] # x

\* the positions of order at which node x was taken up so far in this pass
Visits(x) == {p \in 0..(k - 1) : order[p] = x}

\* C17: from the first shuffle on, order is a permutation of [0, n_nodes);
\* every reshuffle permutes the order left by the previous pass in place and
\* nothing else writes order, so a pass takes up every node exactly once.
C17_OrderIsPermutation ==
  /\ [](pc # "start" =>
          /\ DOMAIN order = Nodes
          /\ \A x \in Nodes : Occurrences(order, x) = 1)
  /\ [](InPass =>
          /\ \A x \in Nodes : Cardinality(Visits(x)) <= 1
          /\ pc \in {"tally", "select"} => i = order[k] /\ Visits(i) = {}
          /\ pc = "for" /\ k >= n_nodes =>
                \A x \in Nodes : Cardinality(Visits(x)) = 1)
  /\ [][/\ pc = "while" /\ pc' = "for" => IsPermutationOf(order', order)
        /\ pc \in {"for", "tally", "select"} => order' = order]_vars

C17_Witness ==
  /\ pc = "for" /\ k >= n_nodes
  /\ n_nodes = 3
  /\ passes >= 2
  /\ order # arange(n_nodes)
  /\ \A x \in Nodes : Cardinality(Visits(x)) = 1

\* the labels held by lst[from .. list_size)
Listed(from) == {lst[p] : p \in from..(list_size - 1)}

\* C18: while a node is processed lst[0 .. list_size) holds pairwise distinct
\* labels, exactly those with a nonzero tally (in the selection loop: those
\* tallied for the node, the ones not yet reset being lst[j .. list_size)),
\* so list_size exceeds neither n_nodes nor the length of the neighbor list.
C18_ScratchListDistinct ==
  pc \in {"tally", "select"} =>
    /\ list_size <= n_nodes
    /\ list_size <= Cardinality(Row(indptr, i))
    /\ 0..(list_size - 1) \subseteq DOMAIN lst
    /\ \A p, q \in 0..(list_size - 1) : p # q => lst[p] # lst[q]
    /\ pc = "tally" => Listed(0) = {L \in Nodes : nb_labels[L] > 0}
    /\ pc = "select" =>
         /\ Listed(0) = {L \in Nodes : TallyOf(L) > 0}
         /\ Listed(j) = {L \in Nodes : nb_labels[L] > 0}

C18_Witness ==
  /\ pc = "select" /\ j = 0
  /\ n_nodes = 3
  /\ list_size = n_nodes
  /\ Mult(indices, indptr, i, i) >= 1
  /\ \E b \in Nodes : Mult(indices, indptr, i, b) >= 2

\* the undirected edges: the entries b of the neighbor list of a node a <= b
\* (a repeated entry is a parallel edge, an entry a of a's own list is a
\* self-loop); a symmetric adjacency lists each edge between distinct nodes
\* once more, in b's list
EdgeEntries == {e \in DOMAIN indices :
                  \E a \in Nodes : e \in Row(indptr, a) /\ a <= indices[e]}

\* the node whose neighbor list holds entry e
RowOf(e) == CHOOSE a \in Nodes : e \in Row(indptr, a)

\* the number of undirected edges whose two endpoints carry the same label
SameLabelEdges(labs) ==
  Cardinality({e \in EdgeEntries : labs[RowOf(e)] = labs[indices[e]]})

\* C19: on a symmetric adjacency every write labels[i] = label strictly
\* increases the number of undirected edges with equally labelled endpoints,
\* so does every node update that changes the node's label, and no other
\* step changes that number; hence a run writes labels at most as often as
\* there are undirected edges and begins at most one pass more than that.
C19_SameLabelEdgesGrow ==
  /\ [][(pc = "while" \/ InPass) =>
          (IF labels' # labels
           THEN /\ pc = "select"
                /\ changes' = changes + 1
                /\ SameLabelEdges(labels') > SameLabelEdges(labels)
           ELSE changes' = changes)]_vars
  /\ [](NodeUpdated /\ pc = "select" /\ labels[i] # pass_labels[i] =>
          SameLabelEdges(labels) > SameLabelEdges(BeforeUpdate))
  /\ [](pc # "start" =>
          /\ changes < ChangeCap /\ passes < PassCap
          /\ changes <= SameLabelEdges(labels) - SameLabelEdges(arange(n_nodes))
          /\ changes <= Cardinality(EdgeEntries)
          /\ passes <= changes + 1
          /\ passes <= Cardinality(EdgeEntries) + 1)

C19_Witness ==
  /\ pc = "done"
  /\ changes = Cardinality(EdgeEntries)
  /\ passes = changes
  /\ changes >= 2
  /\ \E a \in Nodes : Mult(indices, indptr, a, a) = 0 /\ labels[a] # a

====
